---- MODULE Spec2Model ----
(***************************************************************************)
(* A model of src/utils.py: Pane (one time unit's request counters),       *)
(* Window (fixed-length FIFO of retired Panes with request statistics)     *)
(* and AttackDetector (the feed handler process_data and the two-state     *)
(* scan).                                                                  *)
(*                                                                         *)
(* Numbers.  The code computes mean = numer / denom and                    *)
(* sd = sqrt(sum of (mean - v)^2) in floating point.  The model keeps a    *)
(* (mean, sd) pair exactly, as the record [numer, denom, ssq] with         *)
(*     mean = numer / denom,   sd = sqrt(ssq) / denom,                     *)
(*     ssq  = sum of (numer - denom * v)^2  ( = denom^2 * sd_temp ),       *)
(* so that  v > mean + 2*sd  is the integer test                           *)
(*     denom*v - numer > 0  /\  (denom*v - numer)^2 > 4 * ssq.             *)
(* Python's None is the record NoneStats (denom = 0) for a statistics      *)
(* pair, NonePane for a Pane and NoneTimestamp for a timestamp.            *)
(***************************************************************************)
EXTENDS Integers, Sequences, FiniteSets, Bags, TLC

\* ------------------------------------------------------------------ bounds
\* Timestamps of the feed are 1..MaxTs.
MaxTs == 6
\* A Pane takes at most MaxReq counted requests.
MaxReq == 3
\* The feed holds at most MaxFeed records.
MaxFeed == 10

\* The addresses of the feed (opaque strings).
IPs == {"a", "b"}
\* The window lengths a detector is constructed with (0 is the misconfiguration).
WindowLengths == {0, 1, 2, 3}
Timestamps == 1..MaxTs

VARIABLES
    window_length,      \* Window.window_length
    panes,              \* Window.panes: sequence of Panes, oldest first
    ave_sd_requests,    \* Window.ave_requests, Window.sd_requests (cache)
    current_pane,       \* AttackDetector.current_pane
    current_timestamp,  \* AttackDetector.current_timestamp
    status,             \* AttackDetector.status (TRUE = under attack)
    normal_stats,       \* AttackDetector.normal_stats (request baseline)
    normal_ip_stats,    \* AttackDetector.normal_ip_stats (address baseline)
    log,                \* the file at log_path: sequence of addresses
    stdout,             \* the lines printed: [timestamp, n_requests, status]
    error,              \* the exception the last process_data call raised
    scanned,            \* history: the scan the last call ran ("none", "normal", "attack")
    rolled,             \* history: the labels of the Panes handed to shift_window, in order
    fed                 \* history: the bag of the timestamps of the records fed

vars == <<window_length, panes, ave_sd_requests, current_pane, current_timestamp,
          status, normal_stats, normal_ip_stats, log, stdout, error, scanned,
          rolled, fed>>

NoneTimestamp == 0
NoneStats == [numer |-> 0, denom |-> 0, ssq |-> 0]
NonePane == [timestamp |-> NoneTimestamp, ip_list |-> << >>, n_requests |-> 0]
NoError == "none"

\* ------------------------------------------------------------------- Pane
RECURSIVE SumSeq(_)
SumSeq(s) == IF s = << >> THEN 0 ELSE Head(s) + SumSeq(Tail(s))

Pane(timestamp) == [timestamp |-> timestamp, ip_list |-> << >>, n_requests |-> 0]

\* ip in self.ip_list (a dict, kept here in insertion order)
InIpList(ip_list, ip) == \E i \in 1..Len(ip_list) : ip_list[i].ip = ip

\* Pane.update without the increment of n_requests.
update_no_total(pane, ip) ==
    [pane EXCEPT !.ip_list =
        IF InIpList(pane.ip_list, ip)
        THEN [i \in 1..Len(pane.ip_list) |->
                 IF pane.ip_list[i].ip = ip
                 THEN [ip |-> ip, n |-> pane.ip_list[i].n + 1]
                 ELSE pane.ip_list[i]]
        ELSE Append(pane.ip_list, [ip |-> ip, n |-> 1])]

\* Pane.update with the else branch lost: a known address is not counted.
update_known_ignored(pane, ip) ==
    IF InIpList(pane.ip_list, ip)
    THEN pane
    ELSE [pane EXCEPT !.ip_list = Append(pane.ip_list, [ip |-> ip, n |-> 1]),
                      !.n_requests = pane.n_requests + 1]

\* Pane.update that assigns 1 in both branches: a known address is set back
\* to 1 instead of being incremented.
update_resets(pane, ip) ==
    [pane EXCEPT
        !.ip_list =
            IF InIpList(pane.ip_list, ip)
            THEN [i \in 1..Len(pane.ip_list) |->
                     IF pane.ip_list[i].ip = ip
                     THEN [ip |-> ip, n |-> 1]
                     ELSE pane.ip_list[i]]
            ELSE Append(pane.ip_list, [ip |-> ip, n |-> 1]),
        !.n_requests = pane.n_requests + 1]

update(pane, ip) ==
    [pane EXCEPT
        !.ip_list =
            IF InIpList(pane.ip_list, ip)
            THEN [i \in 1..Len(pane.ip_list) |->
                     IF pane.ip_list[i].ip = ip
                     THEN [ip |-> ip, n |-> pane.ip_list[i].n + 1]
                     ELSE pane.ip_list[i]]
            ELSE Append(pane.ip_list, [ip |-> ip, n |-> 1]),
        !.n_requests = pane.n_requests + 1]

\* The values v of self.ip_list.items(), in iteration order.
IpCounts(pane) == [i \in 1..Len(pane.ip_list) |-> pane.ip_list[i].n]

\* mean, sd of a non-empty sequence of integers, as the code computes them.
MeanSd(vals) ==
    LET numer == SumSeq(vals)
        denom == Len(vals)
    IN  [numer |-> numer, denom |-> denom,
         ssq |-> SumSeq([i \in 1..denom |-> (numer - denom * vals[i]) * (numer - denom * vals[i])])]

\* Pane.ip_stats raises ZeroDivisionError iff the Pane holds no address.
ip_stats_raises(pane) == Len(pane.ip_list) = 0
ip_stats(pane) == MeanSd(IpCounts(pane))

\* v > stats[0] + 2*stats[1]
Exceeds(v, stats) ==
    LET d == stats.denom * v - stats.numer
    IN  d > 0 /\ d * d > 4 * stats.ssq

\* ----------------------------------------------------------------- Window
\* __contains__ whose loop stops one Pane short of the end of the window.
contains_skips_last(ps, timestamp) ==
    \E i \in 1..(Len(ps) - 1) : ps[i].timestamp = timestamp

contains(ps, timestamp) == \E i \in 1..Len(ps) : ps[i].timestamp = timestamp

\* shift_window that never drops the oldest Pane.
shift_window_no_evict(ps, wl, new_pane) == Append(ps, new_pane)

\* shift_window whose empty pop(0) ends the call: nothing is appended.
shift_window_underflow_noop(ps, wl, new_pane) ==
    IF Len(ps) < wl
    THEN Append(ps, new_pane)
    ELSE IF Len(ps) = 0
         THEN ps
         ELSE Append(Tail(ps), new_pane)

shift_window(ps, wl, new_pane) ==
    IF Len(ps) < wl
    THEN Append(ps, new_pane)
    ELSE IF Len(ps) = 0
         THEN Append(ps, new_pane)          \* pop(0) raises IndexError: pass; finally append
         ELSE Append(Tail(ps), new_pane)    \* pop(0); finally append

\* Window.get_request_stats raises ZeroDivisionError iff the window is empty.
get_request_stats_raises(ps) == Len(ps) = 0
get_request_stats(ps) == MeanSd([i \in 1..Len(ps) |-> ps[i].n_requests])

\* --------------------------------------------------------- AttackDetector
\* some (ip, v) of current_pane.ip_list has v > stats[0] + 2*stats[1]
AnyExceeds(pane, stats) ==
    \E i \in 1..Len(pane.ip_list) : Exceeds(pane.ip_list[i].n, stats)

\* check_ip_stats that takes the normal-mode baseline from the current Pane.
check_ip_stats_from_current(st, ps, cur, nis) ==
    IF st
    THEN [error |-> NoError, result |-> AnyExceeds(cur, nis), normal_ip_stats |-> nis]
    ELSE IF ip_stats_raises(cur)
         THEN [error |-> "ZeroDivisionError", result |-> FALSE, normal_ip_stats |-> nis]
         ELSE LET new == ip_stats(cur)
              IN  [error |-> NoError, result |-> AnyExceeds(cur, new), normal_ip_stats |-> new]

\* check_ip_stats that takes the normal-mode baseline from panes[0], the
\* oldest Pane of the window.
check_ip_stats_first_pane(st, ps, cur, nis) ==
    IF st
    THEN [error |-> NoError, result |-> AnyExceeds(cur, nis), normal_ip_stats |-> nis]
    ELSE IF ip_stats_raises(ps[1])
         THEN [error |-> "ZeroDivisionError", result |-> FALSE, normal_ip_stats |-> nis]
         ELSE LET new == ip_stats(ps[1])
              IN  [error |-> NoError, result |-> AnyExceeds(cur, new), normal_ip_stats |-> new]

\* The result of check_ip_stats: the exception raised (or NoError), the value
\* returned and self.normal_ip_stats as the call leaves it.  Reading the
\* baseline while it is still None raises TypeError.
check_ip_stats(st, ps, cur, nis) ==
    IF st
    THEN IF nis = NoneStats /\ Len(cur.ip_list) > 0
         THEN [error |-> "TypeError", result |-> FALSE, normal_ip_stats |-> nis]
         ELSE [error |-> NoError, result |-> AnyExceeds(cur, nis), normal_ip_stats |-> nis]
    ELSE IF ip_stats_raises(ps[Len(ps)])
         THEN [error |-> "ZeroDivisionError", result |-> FALSE, normal_ip_stats |-> nis]
         ELSE LET new == ip_stats(ps[Len(ps)])
              IN  [error |-> NoError, result |-> AnyExceeds(cur, new), normal_ip_stats |-> new]

\* write_ips_to_logs without the test of the count: every address of the
\* current Pane is written.
Offenders_all(cur, nis) ==
    [i \in 1..Len(cur.ip_list) |-> cur.ip_list[i].ip]

\* The addresses write_ips_to_logs appends, in the order it meets them.
Offenders(cur, nis) ==
    LET hits == SelectSeq(cur.ip_list, LAMBDA e : Exceeds(e.n, nis))
    IN  [i \in 1..Len(hits) |-> hits[i].ip]

\* write_ips_to_logs when the sink takes `budget` more writes before open()
\* or write() raises OSError: the exception raised and the file afterwards.
write_ips_to_logs(cur, nis, lg, budget) ==
    LET off == Offenders(cur, nis)
    IN  IF Len(off) > budget
        THEN [error |-> "OSError", log |-> lg \o SubSeq(off, 1, budget)]
        ELSE [error |-> NoError, log |-> lg \o off]

\* The attack branch without the call of check_ip_stats: the request count
\* alone keeps the attack going.
scan_under_attack_requests_only(ps, cur, ns, nis, cache, lg, budget) ==
    LET same == [error |-> NoError, status |-> TRUE, normal_stats |-> ns,
                 normal_ip_stats |-> nis, ave_sd_requests |-> cache, log |-> lg]
    IN  IF ~Exceeds(cur.n_requests, ns)
        THEN [same EXCEPT !.status = FALSE]
        ELSE LET w == write_ips_to_logs(cur, nis, lg, budget)
             IN  [same EXCEPT !.error = w.error, !.log = w.log]

\* The attack branch that takes the request baseline anew from the window
\* at every scan that keeps the attack going.
scan_under_attack_rebaseline(ps, cur, ns, nis, cache, lg, budget) ==
    LET same == [error |-> NoError, status |-> TRUE, normal_stats |-> ns,
                 normal_ip_stats |-> nis, ave_sd_requests |-> cache, log |-> lg]
    IN  IF ~Exceeds(cur.n_requests, ns)
        THEN [same EXCEPT !.status = FALSE]
        ELSE LET c == check_ip_stats(TRUE, ps, cur, nis)
             IN  IF c.result
                 THEN LET w == write_ips_to_logs(cur, nis, lg, budget)
                      IN  [same EXCEPT !.error = w.error, !.log = w.log,
                                       !.normal_stats = get_request_stats(ps),
                                       !.ave_sd_requests = get_request_stats(ps)]
                 ELSE [same EXCEPT !.status = FALSE]

\* scan_for_attack, the branch taken when self.status is True: the exception
\* raised (or NoError) and the fields as the call leaves them.  normal_stats
\* is not set by __init__, so reading it before the first escalation raises
\* AttributeError.
scan_under_attack(ps, cur, ns, nis, cache, lg, budget) ==
    LET same == [error |-> NoError, status |-> TRUE, normal_stats |-> ns,
                 normal_ip_stats |-> nis, ave_sd_requests |-> cache, log |-> lg]
    IN  IF ns = NoneStats
        THEN [same EXCEPT !.error = "AttributeError"]
        ELSE IF ~Exceeds(cur.n_requests, ns)
             THEN [same EXCEPT !.status = FALSE]
             ELSE LET c == check_ip_stats(TRUE, ps, cur, nis)
                      got == [same EXCEPT !.normal_ip_stats = c.normal_ip_stats]
                  IN  IF c.error # NoError
                      THEN [got EXCEPT !.error = c.error]
                      ELSE IF c.result
                           THEN LET w == write_ips_to_logs(cur, c.normal_ip_stats, lg, budget)
                                IN  [got EXCEPT !.error = w.error, !.log = w.log]
                           ELSE [got EXCEPT !.status = FALSE]

\* The normal branch that writes the addresses first and sets the status and
\* the request baseline only once the write has succeeded.
scan_not_under_attack_write_first(ps, cur, ns, nis, cache, lg, budget) ==
    LET same == [error |-> NoError, status |-> FALSE, normal_stats |-> ns,
                 normal_ip_stats |-> nis, ave_sd_requests |-> cache, log |-> lg]
    IN  IF get_request_stats_raises(ps)
        THEN [same EXCEPT !.error = "ZeroDivisionError"]
        ELSE LET ave_sd == get_request_stats(ps)
                 got == [same EXCEPT !.ave_sd_requests = ave_sd]
             IN  IF ~Exceeds(cur.n_requests, ave_sd)
                 THEN got
                 ELSE LET c == check_ip_stats(FALSE, ps, cur, nis)
                          chk == [got EXCEPT !.normal_ip_stats = c.normal_ip_stats]
                      IN  IF c.error # NoError
                          THEN [chk EXCEPT !.error = c.error]
                          ELSE IF c.result
                               THEN LET w == write_ips_to_logs(cur, c.normal_ip_stats, lg, budget)
                                    IN  IF w.error # NoError
                                        THEN [chk EXCEPT !.error = w.error, !.log = w.log]
                                        ELSE [chk EXCEPT !.status = TRUE,
                                                         !.normal_stats = ave_sd,
                                                         !.log = w.log]
                               ELSE chk

\* The normal branch that calls check_ip_stats before it tests the request
\* count, so that every scan refreshes normal_ip_stats.
scan_not_under_attack_refresh_first(ps, cur, ns, nis, cache, lg, budget) ==
    LET same == [error |-> NoError, status |-> FALSE, normal_stats |-> ns,
                 normal_ip_stats |-> nis, ave_sd_requests |-> cache, log |-> lg]
    IN  IF get_request_stats_raises(ps)
        THEN [same EXCEPT !.error = "ZeroDivisionError"]
        ELSE LET ave_sd == get_request_stats(ps)
                 got == [same EXCEPT !.ave_sd_requests = ave_sd]
                 c == check_ip_stats(FALSE, ps, cur, nis)
                 chk == [got EXCEPT !.normal_ip_stats = c.normal_ip_stats]
             IN  IF c.error # NoError
                 THEN [chk EXCEPT !.error = c.error]
                 ELSE IF Exceeds(cur.n_requests, ave_sd) /\ c.result
                      THEN LET w == write_ips_to_logs(cur, c.normal_ip_stats, lg, budget)
                           IN  [chk EXCEPT !.error = w.error,
                                           !.status = TRUE,
                                           !.normal_stats = ave_sd,
                                           !.log = w.log]
                      ELSE chk

\* The normal branch that raises the status without saving normal_stats.
scan_not_under_attack_no_baseline(ps, cur, ns, nis, cache, lg, budget) ==
    LET same == [error |-> NoError, status |-> FALSE, normal_stats |-> ns,
                 normal_ip_stats |-> nis, ave_sd_requests |-> cache, log |-> lg]
    IN  IF get_request_stats_raises(ps)
        THEN [same EXCEPT !.error = "ZeroDivisionError"]
        ELSE LET ave_sd == get_request_stats(ps)
                 got == [same EXCEPT !.ave_sd_requests = ave_sd]
             IN  IF ~Exceeds(cur.n_requests, ave_sd)
                 THEN got
                 ELSE LET c == check_ip_stats(FALSE, ps, cur, nis)
                          chk == [got EXCEPT !.normal_ip_stats = c.normal_ip_stats]
                      IN  IF c.error # NoError
                          THEN [chk EXCEPT !.error = c.error]
                          ELSE IF c.result
                               THEN LET w == write_ips_to_logs(cur, c.normal_ip_stats, lg, budget)
                                    IN  [chk EXCEPT !.error = w.error,
                                                    !.status = TRUE,
                                                    !.log = w.log]
                               ELSE chk

\* scan_for_attack, the branch taken when self.status is False.
scan_not_under_attack(ps, cur, ns, nis, cache, lg, budget) ==
    LET same == [error |-> NoError, status |-> FALSE, normal_stats |-> ns,
                 normal_ip_stats |-> nis, ave_sd_requests |-> cache, log |-> lg]
    IN  IF get_request_stats_raises(ps)
        THEN [same EXCEPT !.error = "ZeroDivisionError"]
        ELSE LET ave_sd == get_request_stats(ps)
                 got == [same EXCEPT !.ave_sd_requests = ave_sd]
             IN  IF ~Exceeds(cur.n_requests, ave_sd)
                 THEN got
                 ELSE LET c == check_ip_stats(FALSE, ps, cur, nis)
                          chk == [got EXCEPT !.normal_ip_stats = c.normal_ip_stats]
                      IN  IF c.error # NoError
                          THEN [chk EXCEPT !.error = c.error]
                          ELSE IF c.result
                               THEN LET w == write_ips_to_logs(cur, c.normal_ip_stats, lg, budget)
                                    IN  [chk EXCEPT !.error = w.error,
                                                    !.status = TRUE,
                                                    !.normal_stats = ave_sd,
                                                    !.log = w.log]
                               ELSE chk

scan_for_attack(st, ps, cur, ns, nis, cache, lg, budget) ==
    IF st
    THEN scan_under_attack(ps, cur, ns, nis, cache, lg, budget)
    ELSE scan_not_under_attack(ps, cur, ns, nis, cache, lg, budget)

\* The guard with one Pane accepted.
ScanGuard_nonempty(ps) == Len(ps) > 0

\* must have at least two panes in window before attack scanning
ScanGuard(ps) == Len(ps) > 1

\* The printed line that counts the addresses of the Pane, not its requests.
status_line_addresses(cts, cp, st) ==
    [timestamp |-> cts, n_requests |-> Len(cp.ip_list), status |-> st]

\* print("Timestamp: %s, Number of requests: %s, Attack: %s" % ...)
status_line(cts, cp, st) ==
    [timestamp |-> cts, n_requests |-> cp.n_requests, status |-> st]

\* process_data(ip, timestamp), with the sink taking `budget` more writes.
process_data(ip, timestamp, budget) ==
    LET first == current_pane = NonePane
        cts == IF first THEN timestamp ELSE current_timestamp
        cp  == IF first THEN Pane(timestamp) ELSE current_pane
    IN  /\ fed' = fed (+) SetToBag({timestamp})
        /\ UNCHANGED window_length
        /\ IF timestamp # cts
           THEN IF ~contains(panes, timestamp)
                THEN LET scan == ScanGuard(panes)
                         r == scan_for_attack(status, panes, cp, normal_stats,
                                              normal_ip_stats, ave_sd_requests, log, budget)
                     IN  IF scan /\ r.error # NoError
                         THEN \* the exception leaves process_data before the print
                              /\ error' = r.error
                              /\ scanned' = IF status THEN "attack" ELSE "normal"
                              /\ status' = r.status
                              /\ normal_stats' = r.normal_stats
                              /\ normal_ip_stats' = r.normal_ip_stats
                              /\ ave_sd_requests' = r.ave_sd_requests
                              /\ log' = r.log
                              /\ UNCHANGED <<panes, current_pane, current_timestamp,
                                             stdout, rolled>>
                         ELSE /\ error' = NoError
                              /\ scanned' = IF ~scan THEN "none"
                                            ELSE IF status THEN "attack" ELSE "normal"
                              /\ status' = IF scan THEN r.status ELSE status
                              /\ normal_stats' = IF scan THEN r.normal_stats ELSE normal_stats
                              /\ normal_ip_stats' =
                                    IF scan THEN r.normal_ip_stats ELSE normal_ip_stats
                              /\ ave_sd_requests' =
                                    IF scan THEN r.ave_sd_requests ELSE ave_sd_requests
                              /\ log' = IF scan THEN r.log ELSE log
                              /\ stdout' = Append(stdout, status_line(cts, cp, status'))
                              /\ panes' = shift_window(panes, window_length, cp)
                              /\ rolled' = Append(rolled, cp.timestamp)
                              /\ current_timestamp' = timestamp
                              /\ current_pane' = Pane(timestamp)
                ELSE /\ error' = NoError
                     /\ scanned' = "none"
                     /\ current_timestamp' = cts
                     /\ current_pane' = cp
                     /\ UNCHANGED <<panes, ave_sd_requests, status, normal_stats,
                                    normal_ip_stats, log, stdout, rolled>>
           ELSE /\ error' = NoError
                /\ scanned' = "none"
                /\ current_timestamp' = cts
                /\ current_pane' = update(cp, ip)
                /\ UNCHANGED <<panes, ave_sd_requests, status, normal_stats,
                               normal_ip_stats, log, stdout, rolled>>

\* AttackDetector(window_length, log_path) on an empty log file
Constructed(wl) ==
    /\ window_length = wl
    /\ panes = << >>
    /\ ave_sd_requests = [numer |-> 0, denom |-> 1, ssq |-> 0]
    /\ current_pane = NonePane
    /\ current_timestamp = NoneTimestamp
    /\ status = FALSE
    /\ normal_stats = NoneStats
    /\ normal_ip_stats = NoneStats
    /\ log = << >>
    /\ stdout = << >>
    /\ error = NoError
    /\ scanned = "none"
    /\ rolled = << >>
    /\ fed = EmptyBag

Init == \E wl \in WindowLengths : Constructed(wl)

\* ------------------------------------------------------------------- feed
\* The timestamp of the last record fed (NoneTimestamp before the first).
LastFed ==
    IF fed = EmptyBag THEN NoneTimestamp
    ELSE CHOOSE t \in BagToSet(fed) : \A u \in BagToSet(fed) : u <= t

\* The feed is in chronological order ("This assumes data are in
\* chronological order").  The code compares timestamps with == and != only,
\* so the labels of a chronological feed are taken to be 1, 2, 3, ...: a
\* record carries the label of the record before it or the next one.
Chronological ==
    IF fed = EmptyBag THEN {1}
    ELSE {LastFed, LastFed + 1} \cap Timestamps

\* The counted requests of the Pane a record with this timestamp would go to.
Counted(timestamp) ==
    IF current_pane # NonePane /\ timestamp = current_timestamp
    THEN current_pane.n_requests ELSE 0

\* Bounds of the exploration: at most MaxFeed records, a time unit being fed
\* its opening record and at most MaxReq counted ones.
WithinBounds(timestamp) ==
    /\ Counted(timestamp) < MaxReq
    /\ CopiesIn(timestamp, fed) <= MaxReq
    /\ BagCardinality(fed) < MaxFeed

\* The writes the sink takes before it fails: any number (Cardinality(IPs)
\* covers every address of a Pane, so the write does not fail).
Budgets == 0..Cardinality(IPs)

Next ==
    \E timestamp \in Chronological, ip \in IPs, budget \in Budgets :
        /\ WithinBounds(timestamp)
        /\ process_data(ip, timestamp, budget)

Spec == Init /\ [][Next]_vars

\* ------------------------------------------------------------- Scenario 1
\* Scenario 1 of the specification: window capacity 5; four time units of 10 requests
\* each, spread over two addresses; a fifth unit of 100 requests from one
\* address; then the record that opens a sixth unit.  The record that opens
\* a unit after the first is not counted by process_data, so a unit is fed
\* either the stated number of records or one more (its Pane then counts
\* exactly the stated number).  The sink takes every write.
Scenario1Units == <<10, 10, 10, 10, 100>>

Scenario1Ip(timestamp) ==
    IF timestamp >= 5 THEN "a"
    ELSE IF CopiesIn(timestamp, fed) % 2 = 0 THEN "a" ELSE "b"

Scenario1Timestamps ==
    LET u == LastFed
        c == CopiesIn(u, fed)
    IN  IF u = NoneTimestamp THEN {1}
        ELSE IF u > Len(Scenario1Units) THEN {}
        ELSE {t \in {u} : c < Scenario1Units[u] + (IF u > 1 THEN 1 ELSE 0)}
             \cup {t \in {u + 1} : c >= Scenario1Units[u]}

InitScenario1 == Constructed(5)

NextScenario1 ==
    \E timestamp \in Scenario1Timestamps :
        process_data(Scenario1Ip(timestamp), timestamp, Cardinality(IPs))

SpecScenario1 == InitScenario1 /\ [][NextScenario1]_vars

\* ---------------------------------------------------------------- helpers
Min(a, b) == IF a < b THEN a ELSE b
Range(f) == {f[i] : i \in DOMAIN f}
\* the Panes the detector holds: those of the window and the current one
HeldPanes == Range(panes) \cup (IF current_pane = NonePane THEN {} ELSE {current_pane})
\* the last call was the roll-over that retired a Pane and opened a new one
JustRolled ==
    /\ rolled # << >>
    /\ error = NoError
    /\ current_pane = Pane(current_timestamp)
    /\ CopiesIn(current_timestamp, fed) = 1

\* ----------------------------------------------------------------- claims
\* C1: every Pane handed to the window has n_requests equal to the number of
\* feed records that carry its label, the record that opens the unit
\* included.  (Violated: the record whose timestamp differs from
\* current_timestamp retires the old Pane and is itself not counted.)
C1_RetiredPaneCountsEveryRecord ==
    \A i \in 1..Len(panes) : panes[i].n_requests = CopiesIn(panes[i].timestamp, fed)

\* C2: for a window of positive length C, len(panes) never exceeds C, and
\* the window holds exactly the min(C, k) Panes rolled in last of the k
\* rolled in so far, oldest first: label and request count of each are those
\* of the roll-in (the line printed with it).
C2_WindowHoldsMostRecent ==
    window_length >= 1 =>
        LET k == Min(window_length, Len(rolled))
        IN  /\ Len(panes) <= window_length
            /\ Len(panes) = k
            /\ Len(stdout) = Len(rolled)
            /\ \A i \in 1..k :
                  /\ panes[i].timestamp = rolled[Len(rolled) - k + i]
                  /\ panes[i].timestamp = stdout[Len(rolled) - k + i].timestamp
                  /\ panes[i].n_requests = stdout[Len(rolled) - k + i].n_requests

\* C2 witness: a window of length 2 after 4 roll-ins (C + 2), two evictions done.
C2_Witness == window_length = 2 /\ Len(rolled) = 4 /\ JustRolled

\* C3 as stated: a window of length 0 stays empty under shift_window.
C3_ZeroLengthWindowStaysEmpty == window_length = 0 => Len(panes) = 0

\* C3 amended: on a window of length 0 shift_window does not fail, and the
\* Pane is appended all the same: the window is empty only before the first
\* roll-in and afterwards holds exactly the Pane rolled in last (length 1).
C3_ZeroLengthWindowHoldsLast ==
    window_length = 0 =>
        /\ error = NoError
        /\ Len(panes) = (IF rolled = << >> THEN 0 ELSE 1)
        /\ rolled # << >> => panes[1].timestamp = rolled[Len(rolled)]

\* C3 witness: a window of length 0 after its second roll-in.
C3_Witness == window_length = 0 /\ Len(rolled) = 2 /\ JustRolled

\* C4: no mean/stdev is computed over zero elements in a chronological feed:
\* no call of process_data raises ZeroDivisionError.  (Violated: the last
\* Pane of the window can be empty when check_ip_stats takes its ip_stats.)
C4_NoStatisticsOverNothing == error # "ZeroDivisionError"

\* C5: on the step that takes status from False to True normal_stats becomes
\* the (ave, sd) of the window at that scan, and on every step that starts
\* and ends with status True normal_stats and normal_ip_stats are unchanged.
C5_BaselinesFrozenUnderAttack ==
    [][ /\ (~status /\ status') => normal_stats' = get_request_stats(panes)
        /\ (status /\ status') =>
              /\ normal_stats' = normal_stats
              /\ normal_ip_stats' = normal_ip_stats ]_vars

\* C5 witness: two Panes in a row were retired under attack (the second one
\* scanned against the frozen baselines), and the window's statistics are no
\* longer those of the baselines.
C5_Witness ==
    /\ scanned = "attack"
    /\ status
    /\ JustRolled
    /\ Len(stdout) >= 2
    /\ stdout[Len(stdout)].status
    /\ stdout[Len(stdout) - 1].status
    /\ get_request_stats(panes) # normal_stats
    /\ ip_stats(panes[Len(panes)]) # normal_ip_stats

\* C7: a scan run with status True leaves status True iff the current Pane's
\* n_requests exceeds normal_stats (mean + 2 sd) and some address of it
\* exceeds normal_ip_stats, and otherwise sets it False; a scan run with
\* status False reads the statistics of the window as it is then (they are
\* what get_request_stats caches), escalates only if n_requests exceeds
\* those, and what it saves as normal_stats is those, whatever baseline an
\* earlier attack left.
C7_AttackScanRule ==
    [][ /\ scanned' = "attack" =>
              (status' <=> /\ Exceeds(current_pane.n_requests, normal_stats)
                           /\ AnyExceeds(current_pane, normal_ip_stats))
        /\ scanned' = "normal" =>
              /\ ave_sd_requests' = get_request_stats(panes)
              /\ status' => /\ Exceeds(current_pane.n_requests, get_request_stats(panes))
                            /\ normal_stats' = get_request_stats(panes)
              /\ ~status' => normal_stats' = normal_stats ]_vars

\* C7 witness: after an attack and the scan that ended it, a scan is run with
\* status False on a window whose statistics differ from the stale baseline.
C7_Witness ==
    /\ scanned = "normal"
    /\ error = NoError
    /\ normal_stats # NoneStats
    /\ ave_sd_requests # normal_stats
    /\ \E i \in 1..Len(stdout) - 2 :
          stdout[i].status /\ ~stdout[i + 1].status /\ i + 2 = Len(stdout)

\* C8: a roll-over with fewer than 2 Panes in the window runs no scan, raises
\* nothing and leaves status alone; so a scan has always met 2 Panes, and
\* status is False until two Panes have been retired.
C8_NoScanBelowTwoPanes ==
    /\ [](scanned # "none" => Len(panes) >= 2)
    /\ [](Len(rolled) < 2 => ~status)
    /\ [][ Len(panes) < 2 =>
              /\ scanned' = "none"
              /\ error' = NoError
              /\ status' = status ]_vars

\* C8 witness: the roll-over made with exactly one Pane in the window.
C8_Witness == Len(rolled) = 2 /\ JustRolled /\ scanned = "none" /\ window_length >= 2

\* C9: after N >= 1 records of one timestamp and one record of another, fed
\* to a fresh detector, one line has been printed, one Pane rolled in, and
\* that Pane has n_requests = N.
C9_RoundTrip ==
    (BagToSet(fed) = {1, 2} /\ CopiesIn(2, fed) = 1) =>
        /\ Len(stdout) = 1
        /\ Len(rolled) = 1
        /\ Len(panes) = 1
        /\ panes[1].timestamp = 1
        /\ panes[1].n_requests = CopiesIn(1, fed)
        /\ stdout[1].timestamp = 1
        /\ stdout[1].n_requests = CopiesIn(1, fed)

\* C9 witness: three records of timestamp 1, one address twice, then one
\* record of timestamp 2.
C9_Witness ==
    /\ BagToSet(fed) = {1, 2}
    /\ CopiesIn(1, fed) = 3
    /\ CopiesIn(2, fed) = 1
    /\ Len(panes) = 1
    /\ Len(panes[1].ip_list) = 2

\* C10: in the current Pane and in every Pane of the window n_requests is
\* the sum of the counts of ip_list.
C10_TotalIsSumOfCounts ==
    \A pane \in HeldPanes : pane.n_requests = SumSeq(IpCounts(pane))

\* C10 witness: a Pane of the window with two addresses and three requests.
C10_Witness ==
    \E i \in 1..Len(panes) : Len(panes[i].ip_list) = 2 /\ panes[i].n_requests = 3

\* C6 as stated (Scenario 1): status is True from the scan that retires the
\* 4th unit on, and the address is in the log then.
C6_FlipsOnFourthRetirement ==
    Len(rolled) >= 4 => (status /\ stdout[4].status /\ "a" \in Range(log))

\* C6 amended (Scenario 1): status stays False through the scans that retire
\* units 1 to 4 and nothing is logged; the scan that retires the 5th unit
\* (run on the first record of a 6th unit) sets status True and appends the
\* one address to the log.
C6_FlipsOnFifthRetirement ==
    /\ \A i \in 1..Min(4, Len(stdout)) : ~stdout[i].status
    /\ Len(rolled) < 5 => (~status /\ log = << >>)
    /\ Len(rolled) >= 5 => (status /\ stdout[5].status /\ log = <<"a">>)
    /\ error = NoError

\* C6 witness: the 5th unit has been retired with 100 counted requests of
\* one address, after four units of 10 each, and the detector is under attack.
C6_Witness ==
    /\ Len(rolled) = 5
    /\ status
    /\ panes[5].ip_list = <<[ip |-> "a", n |-> 100]>>
    /\ \A i \in 1..4 : panes[i].n_requests = 10 /\ Len(panes[i].ip_list) = 2
    /\ log = <<"a">>

\* C11: a line is printed exactly on the steps that roll a Pane into the
\* window, one line per roll-in; it carries the label and n_requests of the
\* Pane retired (the one appended to the window) and the status as the step
\* leaves it, which is the status before the step when no scan ran.
C11_OneLinePerRetiredUnit ==
    /\ [](Len(stdout) = Len(rolled))
    /\ [][ /\ rolled' # rolled =>
                 /\ rolled' = Append(rolled, current_pane.timestamp)
                 /\ panes'[Len(panes')] = current_pane
                 /\ stdout' = Append(stdout,
                        [timestamp |-> current_pane.timestamp,
                         n_requests |-> current_pane.n_requests,
                         status |-> status'])
                 /\ scanned' = "none" => status' = status
           /\ rolled' = rolled => stdout' = stdout ]_vars

\* C11 witness: the line of a Pane whose scan raised the status, printed
\* True, after lines printed False; the Pane has two addresses.
C11_Witness ==
    /\ JustRolled
    /\ scanned = "normal"
    /\ Len(stdout) >= 3
    /\ stdout[Len(stdout)].status
    /\ ~stdout[Len(stdout) - 1].status
    /\ stdout[Len(stdout)].n_requests = 3
    /\ Len(panes[Len(panes)].ip_list) = 2

\* C12: the window contains a label exactly when a held Pane carries it: the
\* label of a Pane is contained from the roll-in of that Pane on, through the
\* roll-ins that follow, until the Pane is evicted (the window holds the Panes
\* of the last max(window_length, 1) roll-ins), and a label no held Pane
\* carries, the current label and the None label included, is not contained.
C12_ContainsHeldLabels ==
    LET held == Min(Len(rolled), IF window_length = 0 THEN 1 ELSE window_length)
        heldLabels == {rolled[j] : j \in (Len(rolled) - held + 1)..Len(rolled)}
    IN /\ Len(panes) = held
       /\ \A t \in Timestamps \cup {NoneTimestamp} :
              contains(panes, t) <=> t \in heldLabels
       /\ \A t \in heldLabels : \E i \in 1..Len(panes) : panes[i].timestamp = t
       /\ ~contains(panes, current_timestamp)

\* C12 witness: a window of length 2 after 3 roll-ins: the label rolled in
\* first is evicted and not contained, the two rolled in after it are.
C12_Witness ==
    /\ window_length = 2
    /\ JustRolled
    /\ rolled = <<1, 2, 3>>
    /\ ~contains(panes, 1)
    /\ contains(panes, 2)
    /\ contains(panes, 3)

\* C13: when a write to the log file fails in the scan that takes the status
\* from False to True, the call raises OSError and the transition stays made:
\* after the call the status is True and normal_stats is the (ave, sd) that
\* scan computed over the window; nothing is printed or rolled in.  A scan
\* that raises the status and leaves an offending address unwritten raises.
C13_FailedWriteKeepsTransition ==
    [][ /\ (~status /\ error' = "OSError") =>
              /\ scanned' = "normal"
              /\ status'
              /\ normal_stats' = get_request_stats(panes)
              /\ UNCHANGED <<panes, current_pane, current_timestamp, stdout, rolled>>
        /\ (~status /\ status' /\
            Len(log') - Len(log) <
                Cardinality({i \in 1..Len(current_pane.ip_list) :
                               Exceeds(current_pane.ip_list[i].n, normal_ip_stats')})) =>
              error' = "OSError" ]_vars

\* C13 witness: the call of a scan in normal mode raised OSError and left the
\* status True with the request baseline of a window of two different Panes.
C13_Witness ==
    /\ error = "OSError"
    /\ scanned = "normal"
    /\ status
    /\ normal_stats = get_request_stats(panes)
    /\ normal_stats.ssq > 0
    /\ Len(stdout) > 0
    /\ ~stdout[Len(stdout)].status

\* C14: a scan in normal mode leaves the status True exactly when the
\* n_requests of the current Pane exceeds ave + 2*sd of get_request_stats
\* over all the Panes of the window and the count of some address of the
\* current Pane exceeds mean + 2*sd of the ip_stats of the last Pane of the
\* window (a last Pane without addresses has no such statistics and gives no
\* such address); when it does, normal_stats is that (ave, sd), and when it
\* does not, the status stays False and normal_stats is left as it was.
C14_NormalScanRule ==
    [][ scanned' = "normal" =>
          LET ave_sd == get_request_stats(panes)
              last == panes[Len(panes)]
              requestTest == Exceeds(current_pane.n_requests, ave_sd)
              addressTest ==
                  /\ Len(last.ip_list) > 0
                  /\ \E i \in 1..Len(current_pane.ip_list) :
                         Exceeds(current_pane.ip_list[i].n, ip_stats(last))
          IN  /\ ~status
              /\ status' <=> (requestTest /\ addressTest)
              /\ status' => normal_stats' = ave_sd
              /\ ~status' => normal_stats' = normal_stats ]_vars

\* C14 witness: a scan in normal mode over a window whose
\* Panes differ in n_requests raised the status and saved that (ave, sd).
C14_Witness ==
    /\ scanned = "normal"
    /\ error = NoError
    /\ status
    /\ JustRolled
    /\ normal_stats = ave_sd_requests
    /\ normal_stats.ssq > 0
    /\ normal_stats.denom = 3

\* C15 as stated: every scan that ends with the status True appends the
\* addresses of the current Pane whose count exceeds mean + 2*sd of
\* normal_ip_stats, all of them.
C15_EveryAttackScanWritesAll ==
    [][ (scanned' # "none" /\ status') =>
           LET appended == SubSeq(log', Len(log) + 1, Len(log'))
               hit == {i \in 1..Len(current_pane.ip_list) :
                         Exceeds(current_pane.ip_list[i].n, normal_ip_stats')}
           IN  /\ Range(appended) = {current_pane.ip_list[i].ip : i \in hit}
               /\ Len(appended) = Cardinality(hit) ]_vars

\* C15, amended: a scan that ends with the status True appends to the log file the
\* addresses of the current Pane whose count exceeds mean + 2*sd of
\* normal_ip_stats, each once and no other, at least one of them, whether or
\* not an earlier scan wrote the same address; when the file stops taking
\* writes during that scan (OSError) fewer of them, and no other, are appended.
\* A scan that ends with the status False appends nothing, and a call without
\* a scan leaves the file as it is.
C15_AlertsOnlyFromAttackScans ==
    [][ LET appended == SubSeq(log', Len(log) + 1, Len(log'))
            hit == {i \in 1..Len(current_pane.ip_list) :
                      Exceeds(current_pane.ip_list[i].n, normal_ip_stats')}
            offending == {current_pane.ip_list[i].ip : i \in hit}
        IN  /\ Len(log') >= Len(log)
            /\ SubSeq(log', 1, Len(log)) = log
            /\ (scanned' # "none" /\ status' /\ error' = NoError) =>
                   /\ Range(appended) = offending
                   /\ Len(appended) = Cardinality(offending)
                   /\ Len(appended) >= 1
            /\ (scanned' # "none" /\ status' /\ error' # NoError) =>
                   /\ error' = "OSError"
                   /\ Range(appended) \subseteq offending
                   /\ Len(appended) < Cardinality(offending)
            /\ (scanned' = "none" \/ ~status') => log' = log ]_vars

\* C15 witness: two scans in a row ended with the status True and each wrote
\* the same address; the second, in attack mode, has just rolled its Pane in.
C15_Witness ==
    /\ JustRolled
    /\ scanned = "attack"
    /\ error = NoError
    /\ status
    /\ Len(log) = 2
    /\ log[1] = log[2]
    /\ Len(stdout) >= 2
    /\ stdout[Len(stdout) - 1].status

PopulationExceeds(v, stats) ==
    LET d == stats.denom * v - stats.numer
    IN  /\ d > 0
        /\ stats.denom * d * d > 4 * stats.ssq

\* C17: the deviation in the thresholds is the population standard deviation,
\* so that a scan decides as the population thresholds do: a scan in normal
\* mode that returned left the status True exactly when the n_requests of the
\* Pane scanned exceeds the population threshold of the window and some count
\* of that Pane exceeds the population threshold of the Pane before it.
C17_PopulationThresholds ==
    (scanned = "normal" /\ error = NoError /\ JustRolled) =>
        LET cur == panes[Len(panes)]
            last == panes[Len(panes) - 1]
        IN  status <=>
              /\ PopulationExceeds(cur.n_requests, ave_sd_requests)
              /\ Len(last.ip_list) > 0
              /\ \E i \in 1..Len(cur.ip_list) :
                     PopulationExceeds(cur.ip_list[i].n, MeanSd(IpCounts(last)))

\* C18: on a chronological feed the labels of the Panes of the window are
\* pairwise distinct and differ from the current label and from every
\* timestamp that can arrive next, and every record whose timestamp differs
\* from the current label rolls the current Pane in and resets the current
\* label and Pane: once a call has been made without the log file failing,
\* the current label is the timestamp of the last record fed.
C18_NewTimestampAlwaysRollsIn ==
    /\ \A i, j \in 1..Len(panes) :
           i # j => panes[i].timestamp # panes[j].timestamp
    /\ ~contains(panes, current_timestamp)
    /\ \A t \in Chronological : t # current_timestamp => ~contains(panes, t)
    /\ (fed # EmptyBag /\ error # "OSError") =>
           /\ current_timestamp = LastFed
           /\ current_pane.timestamp = LastFed

\* The count of ip in the Pane, 0 for an address the Pane has not seen.
CountOf(pane, ip) ==
    IF InIpList(pane.ip_list, ip)
    THEN (CHOOSE e \in Range(pane.ip_list) : e.ip = ip).n
    ELSE 0

\* C19: a call of process_data whose timestamp equals the current label
\* changes the current Pane only: the count of one address, the address of
\* the call, grows by 1, the other counts stay, n_requests grows by 1 and
\* the label stays; the window, its cached statistics, the status, both
\* baselines, the log file and the printed output are unchanged, and the
\* call does not raise.
C19_SameTimestampTouchesOnlyCurrentPane ==
    [][ (/\ current_pane # NonePane
         /\ fed' = fed (+) SetToBag({current_timestamp})) =>
           /\ UNCHANGED <<window_length, panes, ave_sd_requests, current_timestamp,
                          status, normal_stats, normal_ip_stats, log, stdout, rolled>>
           /\ error' = NoError
           /\ scanned' = "none"
           /\ current_pane'.timestamp = current_pane.timestamp
           /\ current_pane'.n_requests = current_pane.n_requests + 1
           /\ \E ip \in IPs :
                  /\ CountOf(current_pane', ip) = CountOf(current_pane, ip) + 1
                  /\ \A other \in IPs \ {ip} :
                         CountOf(current_pane', other) = CountOf(current_pane, other) ]_vars

\* C19 witness: under attack, with an address in the log file and a full
\* window, the current Pane has taken three records of its own label, two of
\* them from one address.
C19_Witness ==
    /\ status
    /\ log # << >>
    /\ Len(panes) = window_length
    /\ error = NoError
    /\ scanned = "none"
    /\ current_pane.n_requests = 3
    /\ Len(current_pane.ip_list) = 2
    /\ CopiesIn(current_timestamp, fed) = 4

\* C20: the status is False before the first call, and in every reachable
\* state a status of True comes with normal_stats and normal_ip_stats both
\* set; no call raises for reading a baseline that is not set
\* (AttributeError for normal_stats, TypeError for normal_ip_stats).
C20_AttackHasBaselines ==
    /\ fed = EmptyBag => ~status
    /\ status => (normal_stats # NoneStats /\ normal_ip_stats # NoneStats)
    /\ error \notin {"AttributeError", "TypeError"}

\* C20 witness: a scan in attack mode has read both baselines, found the
\* attack going on, written an address and rolled its Pane in.
C20_Witness ==
    /\ scanned = "attack"
    /\ error = NoError
    /\ status
    /\ JustRolled
    /\ normal_stats # NoneStats
    /\ normal_ip_stats # NoneStats
    /\ Len(log) >= 2

====
